---- MODULE Spec2Model ----
(***************************************************************************)
(* Model of safe::unique_resource<T> (src/ResGuard.hpp): a move-only guard *)
(* that pairs a resource value with a deleter and releases it once.        *)
(*                                                                         *)
(* A program is a single thread that constructs guards, moves them,        *)
(* resets them, swaps them, takes the value back and destroys them.  Each  *)
(* guard object lives in a slot of storage that is free or holds a live   *)
(* guard; a destroyed guard's slot can hold a new guard.  The deleters     *)
(* are the ones of the spec's scenarios: they append the value they are    *)
(* given to a release log, kept here per value.                            *)
(***************************************************************************)
EXTENDS Integers, Sequences, FiniteSets

\* ---------------------------------------------------------------- bounds
NumGuards == 2          \* guard objects alive at the same time
MaxValue == 2           \* distinct resource values a program acquires
NumDeleters == 2        \* distinct non-null deleter functions
NumThreads == 2         \* threads that operate on one guard without synchronization

Slots == 1..NumGuards
Values == 1..MaxValue
Deleters == 1..NumDeleters
Threads == 1..NumThreads

\* deleter_type d == nullptr
nullptr == 0
\* the payload of storage that holds no guard object
NoValue == 0
\* "no guard": the second operand of a unary operation
NoGuard == 0

\* what a T value_ can hold
Payloads == Values \cup {NoValue}

\* the function pointers fn that make_unique_resource builds: the adapter of
\* a callable that returns and the adapter of a callable that throws
ReturningFn == NumDeleters + 1
ThrowingFn == NumDeleters + 2
Adapters == {ReturningFn, ThrowingFn}

VARIABLES
    alive,       \* slot -> a constructed, not yet destroyed guard is here
    value_,      \* slot -> T value_
    valid_,      \* slot -> bool valid_
    deleter_,    \* slot -> deleter_type deleter_
    log,         \* the release log: payload -> the deleters invoked on it, in order
    handedBack,  \* values returned to the caller by release_ownership()
    nextValue,   \* next fresh resource value the caller acquires
    aborted,     \* std::terminate() was called
    op,          \* the last operation and what it returned
    thread       \* thread -> the operation it is inside and its position in it

vars == <<alive, value_, valid_, deleter_, log, handedBack, nextValue, aborted, op, thread>>

Live == {g \in Slots : alive[g]}
Free == {g \in Slots : ~alive[g]}

\* the storage the next guard object is created in
NewSlot == CHOOSE g \in Free : \A h \in Free : g <= h

\* values given to successfully constructed guards so far
Constructed == 1..(nextValue - 1)

\* the deleter the caller pairs with resource value v
DeleterFor(v) == ((v - 1) % NumDeleters) + 1

\* what the last operation did to guard g
Role(g) ==
    IF op.self = g
    THEN IF op.name = "move_assign" /\ op.other = g THEN "self_move_assign" ELSE op.name
    ELSE IF op.other = g THEN op.name \o "_other"
    ELSE "none"

\* what a destroy, reset or operator bool on g records about the operation
\* right before it: the operations after which a guard is expected to be
\* left released, swapped or untouched
After(n, g) ==
    IF \/ /\ n \in {"destroy", "reset"}
          /\ Role(g) \in {"reset", "release_ownership", "move_construct_other",
                          "self_move_assign", "swap", "swap_other"}
       \/ /\ n = "operator_bool"
          /\ Role(g) = "release_ownership"
    THEN Role(g)
    ELSE "none"

\* record of an operation n on guard g (and h) returning r with f deleter
\* invocations
Op(n, g, h, r, f) ==
    [name |-> n, self |-> g, other |-> h, ret |-> r, fired |-> f,
     after |-> After(n, g)]

\* deleter_(value_) of guard g: the release log with d's invocation on the
\* value added
Invoke(lg, g) == [lg EXCEPT ![value_[g]] = Append(@, deleter_[g])]

\* number of deleter invocations in a release log
Invocations(lg) ==
    LET RECURSIVE Sum(_)
        Sum(n) == IF n < 0 THEN 0 ELSE Len(lg[n]) + Sum(n - 1)
    IN Sum(MaxValue)

\* what std::move(x) leaves in x when it is the source of a move
\* construction/assignment of T: T is a resource handle (file descriptor,
\* socket, opaque token), a trivially copyable type whose move is a copy
AfterMove(v) == v

\* a thread that is inside no operation
Idle == [pc |-> "idle", name |-> "none", other |-> NoGuard, passed |-> FALSE]

Init ==
    /\ thread = [t \in Threads |-> Idle]
    /\ alive = [g \in Slots |-> FALSE]
    /\ value_ = [g \in Slots |-> NoValue]
    /\ valid_ = [g \in Slots |-> FALSE]
    /\ deleter_ = [g \in Slots |-> nullptr]
    /\ log = [v \in Payloads |-> <<>>]
    /\ handedBack = {}
    /\ nextValue = 1
    /\ aborted = FALSE
    /\ op = [name |-> "init", self |-> NoGuard, other |-> NoGuard, ret |-> "void",
             fired |-> 0, after |-> "none"]

\* adapter whose handler is catch (...) {} : the error is swallowed
fn_Swallows(d) == FALSE

\* the adapter fn of make_unique_resource called through deleter d: it
\* applies the callable inside try, and catch (...) calls std::terminate(),
\* so the call does not return when the callable throws
fn(d) == d = ThrowingFn

\* release() that forgets valid_ = false
release_KeepsValid(g) ==
    IF valid_[g] /\ deleter_[g] # nullptr
    THEN [valid |-> valid_,
          log |-> Invoke(log, g), terminated |-> fn(deleter_[g])]
    ELSE [valid |-> valid_, log |-> log, terminated |-> FALSE]

\* release() that tests only the deleter, not valid_
release_IgnoresValid(g) ==
    IF deleter_[g] # nullptr
    THEN [valid |-> [valid_ EXCEPT ![g] = FALSE],
          log |-> Invoke(log, g), terminated |-> fn(deleter_[g])]
    ELSE [valid |-> valid_, log |-> log, terminated |-> FALSE]

\* void release() noexcept: the valid_ flags and the release log it leaves,
\* and whether the deleter call ended in std::terminate() (then valid_ = false
\* is never reached)
release(g) ==
    IF valid_[g] /\ deleter_[g] # nullptr
    THEN IF fn(deleter_[g])
         THEN [valid |-> valid_, log |-> Invoke(log, g), terminated |-> TRUE]
         ELSE [valid |-> [valid_ EXCEPT ![g] = FALSE],
               log |-> Invoke(log, g), terminated |-> FALSE]
    ELSE [valid |-> valid_, log |-> log, terminated |-> FALSE]

\* what an operation that called release() on g returns to its caller
Returned(g) == IF release(g).terminated THEN "terminate" ELSE "void"

\* the name under which a construction with deleter argument d is recorded
ConstructName(d) == IF d = nullptr THEN "construct_null" ELSE "construct"

\* constructor without the if (!d) std::terminate() test
Construct_NoNullCheck(d) ==
    /\ ~aborted
    /\ Free # {}
    /\ nextValue <= MaxValue
    /\ alive' = [alive EXCEPT ![NewSlot] = TRUE]
    /\ value_' = [value_ EXCEPT ![NewSlot] = nextValue]
    /\ valid_' = [valid_ EXCEPT ![NewSlot] = TRUE]
    /\ deleter_' = [deleter_ EXCEPT ![NewSlot] = d]
    /\ nextValue' = nextValue + 1
    /\ op' = Op(ConstructName(d), NewSlot, NoGuard, "void", 0)
    /\ UNCHANGED <<aborted, log, handedBack>>
    /\ UNCHANGED thread

\* explicit unique_resource(U&& res, deleter_type d)
Construct(d) ==
    /\ ~aborted
    /\ Free # {}
    /\ nextValue <= MaxValue
    /\ IF d = nullptr
       THEN /\ aborted' = TRUE
            /\ op' = Op(ConstructName(d), NewSlot, NoGuard, "terminate", 0)
            /\ UNCHANGED <<alive, value_, valid_, deleter_, nextValue>>
       ELSE /\ alive' = [alive EXCEPT ![NewSlot] = TRUE]
            /\ value_' = [value_ EXCEPT ![NewSlot] = nextValue]
            /\ valid_' = [valid_ EXCEPT ![NewSlot] = TRUE]
            /\ deleter_' = [deleter_ EXCEPT ![NewSlot] = d]
            /\ nextValue' = nextValue + 1
            /\ op' = Op(ConstructName(d), NewSlot, NoGuard, "void", 0)
            /\ UNCHANGED aborted
    /\ UNCHANGED <<log, handedBack>>
    /\ UNCHANGED thread

\* ~unique_resource() noexcept; the storage of the dead object is cleared
Destroy(g) ==
    /\ ~aborted
    /\ g \in Live
    /\ log' = release(g).log
    /\ aborted' = release(g).terminated
    /\ IF release(g).terminated
       THEN UNCHANGED <<alive, valid_, value_, deleter_>>
       ELSE /\ alive' = [alive EXCEPT ![g] = FALSE]
            /\ valid_' = [release(g).valid EXCEPT ![g] = FALSE]
            /\ value_' = [value_ EXCEPT ![g] = NoValue]
            /\ deleter_' = [deleter_ EXCEPT ![g] = nullptr]
    /\ op' = Op("destroy", g, NoGuard, Returned(g), Invocations(log') - Invocations(log))
    /\ UNCHANGED <<handedBack, nextValue>>
    /\ UNCHANGED thread

\* move constructor that copies valid_ instead of exchanging it with false
MoveConstruct_CopiesValid(other) ==
    /\ ~aborted
    /\ other \in Live
    /\ Free # {}
    /\ value_' = [value_ EXCEPT ![NewSlot] = value_[other],
                                 ![other] = AfterMove(value_[other])]
    /\ valid_' = [valid_ EXCEPT ![NewSlot] = valid_[other]]
    /\ deleter_' = [deleter_ EXCEPT ![NewSlot] = deleter_[other]]
    /\ alive' = [alive EXCEPT ![NewSlot] = TRUE]
    /\ op' = Op("move_construct", NewSlot, other, "void", 0)
    /\ UNCHANGED <<log, handedBack, nextValue, aborted>>
    /\ UNCHANGED thread

\* move constructor that marks the new guard valid whatever the source was
MoveConstruct_AlwaysValid(other) ==
    /\ ~aborted
    /\ other \in Live
    /\ Free # {}
    /\ value_' = [value_ EXCEPT ![NewSlot] = value_[other],
                                 ![other] = AfterMove(value_[other])]
    /\ valid_' = [valid_ EXCEPT ![NewSlot] = TRUE, ![other] = FALSE]
    /\ deleter_' = [deleter_ EXCEPT ![NewSlot] = deleter_[other]]
    /\ alive' = [alive EXCEPT ![NewSlot] = TRUE]
    /\ op' = Op("move_construct", NewSlot, other, "void", 0)
    /\ UNCHANGED <<log, handedBack, nextValue, aborted>>
    /\ UNCHANGED thread

\* move constructor that takes the deleter with std::exchange(other.deleter_, nullptr)
MoveConstruct_NullsSourceDeleter(other) ==
    /\ ~aborted
    /\ other \in Live
    /\ Free # {}
    /\ value_' = [value_ EXCEPT ![NewSlot] = value_[other],
                                 ![other] = AfterMove(value_[other])]
    /\ valid_' = [valid_ EXCEPT ![NewSlot] = valid_[other], ![other] = FALSE]
    /\ deleter_' = [deleter_ EXCEPT ![NewSlot] = deleter_[other], ![other] = nullptr]
    /\ alive' = [alive EXCEPT ![NewSlot] = TRUE]
    /\ op' = Op("move_construct", NewSlot, other, "void", 0)
    /\ UNCHANGED <<log, handedBack, nextValue, aborted>>
    /\ UNCHANGED thread

\* unique_resource(unique_resource&& other)
MoveConstruct(other) ==
    /\ ~aborted
    /\ other \in Live
    /\ Free # {}
    /\ value_' = [value_ EXCEPT ![NewSlot] = value_[other],
                                 ![other] = AfterMove(value_[other])]
    /\ valid_' = [valid_ EXCEPT ![NewSlot] = valid_[other], ![other] = FALSE]
    /\ deleter_' = [deleter_ EXCEPT ![NewSlot] = deleter_[other]]
    /\ alive' = [alive EXCEPT ![NewSlot] = TRUE]
    /\ op' = Op("move_construct", NewSlot, other, "void", 0)
    /\ UNCHANGED <<log, handedBack, nextValue, aborted>>
    /\ UNCHANGED thread

\* move assignment that does not release what the destination owns
MoveAssign_NoRelease(this, other) ==
    /\ ~aborted
    /\ this \in Live
    /\ other \in Live
    /\ IF this # other
       THEN /\ value_' = [value_ EXCEPT ![this] = value_[other],
                                         ![other] = AfterMove(value_[other])]
            /\ valid_' = [valid_ EXCEPT ![this] = valid_[other], ![other] = FALSE]
            /\ deleter_' = [deleter_ EXCEPT ![this] = deleter_[other]]
            /\ UNCHANGED log
       ELSE /\ UNCHANGED <<log, value_, valid_, deleter_>>
    /\ op' = Op("move_assign", this, other, "void", Invocations(log') - Invocations(log))
    /\ UNCHANGED <<alive, handedBack, nextValue, aborted>>
    /\ UNCHANGED thread

\* move assignment that absorbs the source first and calls release() after
MoveAssign_AbsorbsFirst(this, other) ==
    /\ ~aborted
    /\ this \in Live
    /\ other \in Live
    /\ IF this # other
       THEN /\ value_' = [value_ EXCEPT ![this] = value_[other],
                                         ![other] = AfterMove(value_[other])]
            /\ deleter_' = [deleter_ EXCEPT ![this] = deleter_[other]]
            /\ valid_' = [valid_ EXCEPT ![this] = FALSE, ![other] = FALSE]
            /\ log' = IF valid_[other] /\ deleter_[other] # nullptr
                      THEN Invoke(log, other)
                      ELSE log
       ELSE /\ UNCHANGED <<log, value_, valid_, deleter_>>
    /\ op' = Op("move_assign", this, other, "void", Invocations(log') - Invocations(log))
    /\ UNCHANGED <<alive, handedBack, nextValue, aborted>>
    /\ UNCHANGED thread

\* move assignment without the this != &other test
MoveAssign_NoSelfCheck(this, other) ==
    /\ ~aborted
    /\ this \in Live
    /\ other \in Live
    /\ log' = release(this).log
    /\ value_' = [value_ EXCEPT ![other] = AfterMove(value_[other]),
                                 ![this] = value_[other]]
    /\ valid_' = [release(this).valid EXCEPT
                      ![this] = release(this).valid[other],
                      ![other] = FALSE]
    /\ deleter_' = [deleter_ EXCEPT ![this] = deleter_[other]]
    /\ op' = Op("move_assign", this, other, "void", Invocations(log') - Invocations(log))
    /\ UNCHANGED <<alive, handedBack, nextValue, aborted>>
    /\ UNCHANGED thread

\* move assignment that forgets deleter_ = other.deleter_
MoveAssign_KeepsDeleter(this, other) ==
    /\ ~aborted
    /\ this \in Live
    /\ other \in Live
    /\ IF this # other
       THEN /\ log' = release(this).log
            /\ value_' = [value_ EXCEPT ![this] = value_[other],
                                         ![other] = AfterMove(value_[other])]
            /\ valid_' = [release(this).valid EXCEPT
                              ![this] = release(this).valid[other],
                              ![other] = FALSE]
       ELSE /\ UNCHANGED <<log, value_, valid_>>
    /\ op' = Op("move_assign", this, other, "void", Invocations(log') - Invocations(log))
    /\ UNCHANGED <<alive, deleter_, handedBack, nextValue, aborted>>
    /\ UNCHANGED thread

\* move assignment that copies other.valid_ instead of exchanging it
MoveAssign_KeepsSourceValid(this, other) ==
    /\ ~aborted
    /\ this \in Live
    /\ other \in Live
    /\ IF this # other
       THEN /\ log' = release(this).log
            /\ value_' = [value_ EXCEPT ![this] = value_[other],
                                         ![other] = AfterMove(value_[other])]
            /\ valid_' = [release(this).valid EXCEPT ![this] = release(this).valid[other]]
            /\ deleter_' = [deleter_ EXCEPT ![this] = deleter_[other]]
       ELSE /\ UNCHANGED <<log, value_, valid_, deleter_>>
    /\ op' = Op("move_assign", this, other, "void", Invocations(log') - Invocations(log))
    /\ UNCHANGED <<alive, handedBack, nextValue, aborted>>
    /\ UNCHANGED thread

\* move assignment that sets valid_ = true instead of taking other.valid_
MoveAssign_AlwaysValid(this, other) ==
    /\ ~aborted
    /\ this \in Live
    /\ other \in Live
    /\ IF this # other
       THEN /\ log' = release(this).log
            /\ value_' = [value_ EXCEPT ![this] = value_[other],
                                         ![other] = AfterMove(value_[other])]
            /\ valid_' = [valid_ EXCEPT ![this] = TRUE, ![other] = FALSE]
            /\ deleter_' = [deleter_ EXCEPT ![this] = deleter_[other]]
       ELSE /\ UNCHANGED <<log, value_, valid_, deleter_>>
    /\ op' = Op("move_assign", this, other, "void", Invocations(log') - Invocations(log))
    /\ UNCHANGED <<alive, handedBack, nextValue, aborted>>
    /\ UNCHANGED thread

\* unique_resource& operator=(unique_resource&& other)
MoveAssign(this, other) ==
    /\ ~aborted
    /\ this \in Live
    /\ other \in Live
    /\ IF this # other
       THEN /\ log' = release(this).log
            /\ aborted' = release(this).terminated
            /\ IF release(this).terminated
               THEN UNCHANGED <<value_, valid_, deleter_>>
               ELSE /\ value_' = [value_ EXCEPT ![this] = value_[other],
                                                 ![other] = AfterMove(value_[other])]
                    /\ valid_' = [release(this).valid EXCEPT
                                      ![this] = release(this).valid[other],
                                      ![other] = FALSE]
                    /\ deleter_' = [deleter_ EXCEPT ![this] = deleter_[other]]
            /\ op' = Op("move_assign", this, other, Returned(this),
                        Invocations(log') - Invocations(log))
       ELSE /\ op' = Op("move_assign", this, other, "void", 0)
            /\ UNCHANGED <<log, value_, valid_, deleter_, aborted>>
    /\ UNCHANGED <<alive, handedBack, nextValue>>
    /\ UNCHANGED thread

\* reset() that invokes the deleter itself instead of calling release()
reset_Unguarded(g) ==
    /\ ~aborted
    /\ g \in Live
    /\ valid_' = [valid_ EXCEPT ![g] = FALSE]
    /\ log' = Invoke(log, g)
    /\ op' = Op("reset", g, NoGuard, "void", Invocations(log') - Invocations(log))
    /\ UNCHANGED <<alive, value_, deleter_, handedBack, nextValue, aborted>>
    /\ UNCHANGED thread

\* void reset() noexcept
reset(g) ==
    /\ ~aborted
    /\ g \in Live
    /\ valid_' = release(g).valid
    /\ log' = release(g).log
    /\ aborted' = release(g).terminated
    /\ op' = Op("reset", g, NoGuard, Returned(g), Invocations(log') - Invocations(log))
    /\ UNCHANGED <<alive, value_, deleter_, handedBack, nextValue>>
    /\ UNCHANGED thread

\* release_ownership() that returns the value but forgets valid_ = false
release_ownership_KeepsValid(g) ==
    /\ ~aborted
    /\ g \in Live
    /\ value_' = [value_ EXCEPT ![g] = AfterMove(value_[g])]
    /\ handedBack' = handedBack \cup {value_[g]}
    /\ op' = Op("release_ownership", g, NoGuard, value_[g], 0)
    /\ UNCHANGED <<alive, valid_, deleter_, log, nextValue, aborted>>
    /\ UNCHANGED thread

\* release_ownership() that gives the value up through release()
release_ownership_Releases(g) ==
    /\ ~aborted
    /\ g \in Live
    /\ valid_' = release(g).valid
    /\ log' = release(g).log
    /\ handedBack' = handedBack \cup {value_[g]}
    /\ op' = Op("release_ownership", g, NoGuard, value_[g],
                Invocations(log') - Invocations(log))
    /\ UNCHANGED <<alive, value_, deleter_, nextValue, aborted>>
    /\ UNCHANGED thread

\* T release_ownership() noexcept
release_ownership(g) ==
    /\ ~aborted
    /\ g \in Live
    /\ valid_' = [valid_ EXCEPT ![g] = FALSE]
    /\ value_' = [value_ EXCEPT ![g] = AfterMove(value_[g])]
    /\ handedBack' = handedBack \cup {value_[g]}
    /\ op' = Op("release_ownership", g, NoGuard, value_[g], 0)
    /\ UNCHANGED <<alive, deleter_, log, nextValue, aborted>>
    /\ UNCHANGED thread

\* swap that exchanges value_ and deleter_ but not valid_
swap_KeepsValid(this, other) ==
    /\ ~aborted
    /\ this \in Live
    /\ other \in Live
    /\ value_' = [value_ EXCEPT ![this] = value_[other], ![other] = value_[this]]
    /\ deleter_' = [deleter_ EXCEPT ![this] = deleter_[other], ![other] = deleter_[this]]
    /\ op' = Op("swap", this, other, "void", 0)
    /\ UNCHANGED <<alive, valid_, log, handedBack, nextValue, aborted>>
    /\ UNCHANGED thread

\* swap that exchanges value_ and valid_ but not deleter_
swap_KeepsDeleter(this, other) ==
    /\ ~aborted
    /\ this \in Live
    /\ other \in Live
    /\ value_' = [value_ EXCEPT ![this] = value_[other], ![other] = value_[this]]
    /\ valid_' = [valid_ EXCEPT ![this] = valid_[other], ![other] = valid_[this]]
    /\ op' = Op("swap", this, other, "void", 0)
    /\ UNCHANGED <<alive, deleter_, log, handedBack, nextValue, aborted>>
    /\ UNCHANGED thread

\* void swap(unique_resource& other), and safe::swap(a, b) which calls a.swap(b)
swap(this, other) ==
    /\ ~aborted
    /\ this \in Live
    /\ other \in Live
    /\ value_' = [value_ EXCEPT ![this] = value_[other], ![other] = value_[this]]
    /\ valid_' = [valid_ EXCEPT ![this] = valid_[other], ![other] = valid_[this]]
    /\ deleter_' = [deleter_ EXCEPT ![this] = deleter_[other], ![other] = deleter_[this]]
    /\ op' = Op("swap", this, other, "void", 0)
    /\ UNCHANGED <<alive, log, handedBack, nextValue, aborted>>
    /\ UNCHANGED thread

\* get() that hands out the payload only while the guard is valid
get_OnlyWhenValid(g) ==
    /\ ~aborted
    /\ g \in Live
    /\ op' = Op("get", g, NoGuard, IF valid_[g] THEN value_[g] ELSE NoValue, 0)
    /\ UNCHANGED <<alive, value_, valid_, deleter_, log, handedBack, nextValue, aborted>>
    /\ UNCHANGED thread

\* T& get() noexcept
get(g) ==
    /\ ~aborted
    /\ g \in Live
    /\ op' = Op("get", g, NoGuard, value_[g], 0)
    /\ UNCHANGED <<alive, value_, valid_, deleter_, log, handedBack, nextValue, aborted>>
    /\ UNCHANGED thread

\* T* operator->() noexcept: std::addressof(value_), recorded as the payload
\* it points to
operator_arrow(g) ==
    /\ ~aborted
    /\ g \in Live
    /\ op' = Op("operator_arrow", g, NoGuard, value_[g], 0)
    /\ UNCHANGED <<alive, value_, valid_, deleter_, log, handedBack, nextValue, aborted>>
    /\ UNCHANGED thread

\* explicit operator bool() const noexcept
operator_bool(g) ==
    /\ ~aborted
    /\ g \in Live
    /\ op' = Op("operator_bool", g, NoGuard, valid_[g], 0)
    /\ UNCHANGED <<alive, value_, valid_, deleter_, log, handedBack, nextValue, aborted>>
    /\ UNCHANGED thread

\* make_unique_resource(res, deleter): unique_resource{res, fn} with fn the
\* adapter of the callable; fn is never null, so the constructor returns
make_unique_resource(d) ==
    /\ ~aborted
    /\ Free # {}
    /\ nextValue <= MaxValue
    /\ alive' = [alive EXCEPT ![NewSlot] = TRUE]
    /\ value_' = [value_ EXCEPT ![NewSlot] = nextValue]
    /\ valid_' = [valid_ EXCEPT ![NewSlot] = TRUE]
    /\ deleter_' = [deleter_ EXCEPT ![NewSlot] = d]
    /\ nextValue' = nextValue + 1
    /\ op' = Op("make_unique_resource", NewSlot, NoGuard, "void", 0)
    /\ UNCHANGED <<aborted, log, handedBack>>
    /\ UNCHANGED thread


Next ==
    \/ \E d \in {DeleterFor(nextValue), nullptr} : Construct(d)
    \/ \E g \in Slots : Destroy(g)
    \/ \E g \in Slots : MoveConstruct(g)
    \/ \E g, h \in Slots : MoveAssign(g, h)
    \/ \E g \in Slots : reset(g)
    \/ \E g \in Slots : release_ownership(g)
    \/ \E g, h \in Slots : swap(g, h)
    \/ \E g \in Slots : get(g)
    \/ \E g \in Slots : operator_arrow(g)
    \/ \E g \in Slots : operator_bool(g)

Spec == Init /\ [][Next]_vars

\* programs that build their guards with the factory, from callables that
\* return or throw, and run the operations that move a deleter or call it
NextFactory ==
    \/ \E d \in Adapters : make_unique_resource(d)
    \/ \E g \in Slots : Destroy(g)
    \/ \E g \in Slots : MoveConstruct(g)
    \/ \E g, h \in Slots : MoveAssign(g, h)
    \/ \E g \in Slots : reset(g)
    \/ \E g, h \in Slots : swap(g, h)

SpecFactory == Init /\ [][NextFactory]_vars


\* ------------------------------------------------- unsynchronized threads
\* the guard all threads operate on
Shared == 1

\* the guards a thread can move-assign from
Sources == Live \ {Shared}

\* some thread has accessed the guard after its lifetime ended
Undefined == \E t \in Threads : thread[t].pc = "undefined"

\* where an operation continues after its call of release()
AfterRelease(n) ==
    IF n = "reset" THEN "done" ELSE IF n = "destroy" THEN "end" ELSE "absorb"

\* thread t calls reset(), runs the destructor or move-assigns from guard h
\* (h is not the shared guard, so this != &other holds) and enters release()
Begin(t, n, h) ==
    /\ ~Undefined
    /\ thread[t].pc = "idle"
    /\ IF n = "move_assign" THEN h \in Sources ELSE h = NoGuard
    /\ thread' = [thread EXCEPT ![t] = [pc |-> "check", name |-> n, other |-> h,
                                         passed |-> FALSE]]
    /\ UNCHANGED <<alive, value_, valid_, deleter_, log, handedBack, nextValue, aborted, op>>

\* release() whose test is if (std::exchange(valid_, false) && deleter_)
release_check_Exchanges(t) ==
    /\ ~Undefined
    /\ thread[t].pc = "check"
    /\ IF ~alive[Shared]
       THEN /\ thread' = [thread EXCEPT ![t].pc = "undefined"]
            /\ UNCHANGED valid_
       ELSE IF valid_[Shared] /\ deleter_[Shared] # nullptr
       THEN /\ thread' = [thread EXCEPT ![t].pc = "call", ![t].passed = TRUE]
            /\ valid_' = [valid_ EXCEPT ![Shared] = FALSE]
       ELSE /\ thread' = [thread EXCEPT ![t].pc = AfterRelease(thread[t].name)]
            /\ UNCHANGED valid_
    /\ UNCHANGED <<alive, value_, deleter_, log, handedBack, nextValue, aborted, op>>

\* release(): if (valid_ && deleter_), read by thread t
release_check(t) ==
    /\ ~Undefined
    /\ thread[t].pc = "check"
    /\ thread' = [thread EXCEPT
                    ![t].pc = IF ~alive[Shared] THEN "undefined"
                              ELSE IF valid_[Shared] /\ deleter_[Shared] # nullptr
                              THEN "call"
                              ELSE AfterRelease(thread[t].name),
                    ![t].passed = alive[Shared] /\ valid_[Shared]
                                    /\ deleter_[Shared] # nullptr]
    /\ UNCHANGED <<alive, value_, valid_, deleter_, log, handedBack, nextValue, aborted, op>>

\* release(): deleter_(value_), called by thread t
release_call(t) ==
    /\ ~Undefined
    /\ thread[t].pc = "call"
    /\ IF alive[Shared]
       THEN /\ log' = Invoke(log, Shared)
            /\ thread' = [thread EXCEPT ![t].pc = "clear"]
       ELSE /\ thread' = [thread EXCEPT ![t].pc = "undefined"]
            /\ UNCHANGED log
    /\ UNCHANGED <<alive, value_, valid_, deleter_, handedBack, nextValue, aborted, op>>

\* release(): valid_ = false, written by thread t; reset() returns after it
release_clear(t) ==
    /\ ~Undefined
    /\ thread[t].pc = "clear"
    /\ IF alive[Shared]
       THEN /\ valid_' = [valid_ EXCEPT ![Shared] = FALSE]
            /\ thread' = [thread EXCEPT ![t].pc = AfterRelease(thread[t].name)]
       ELSE /\ thread' = [thread EXCEPT ![t].pc = "undefined"]
            /\ UNCHANGED valid_
    /\ UNCHANGED <<alive, value_, deleter_, log, handedBack, nextValue, aborted, op>>

\* operator=: the three assignments after release(), taken as one step
absorb(t) ==
    /\ ~Undefined
    /\ thread[t].pc = "absorb"
    /\ IF alive[Shared]
       THEN /\ value_' = [value_ EXCEPT ![Shared] = value_[thread[t].other],
                                         ![thread[t].other] = AfterMove(value_[thread[t].other])]
            /\ valid_' = [valid_ EXCEPT ![Shared] = valid_[thread[t].other],
                                         ![thread[t].other] = FALSE]
            /\ deleter_' = [deleter_ EXCEPT ![Shared] = deleter_[thread[t].other]]
            /\ thread' = [thread EXCEPT ![t].pc = "done"]
       ELSE /\ thread' = [thread EXCEPT ![t].pc = "undefined"]
            /\ UNCHANGED <<value_, valid_, deleter_>>
    /\ UNCHANGED <<alive, log, handedBack, nextValue, aborted, op>>

\* ~unique_resource(): the lifetime of the guard ends after release()
end_of_lifetime(t) ==
    /\ ~Undefined
    /\ thread[t].pc = "end"
    /\ IF alive[Shared]
       THEN /\ alive' = [alive EXCEPT ![Shared] = FALSE]
            /\ valid_' = [valid_ EXCEPT ![Shared] = FALSE]
            /\ thread' = [thread EXCEPT ![t].pc = "done"]
       ELSE /\ thread' = [thread EXCEPT ![t].pc = "undefined"]
            /\ UNCHANGED <<alive, valid_>>
    /\ UNCHANGED <<value_, deleter_, log, handedBack, nextValue, aborted, op>>

\* the guards are constructed by one thread, each over its own value, before
\* the threads start
InitThreads ==
    /\ thread = [t \in Threads |-> Idle]
    /\ alive = [g \in Slots |-> g \in Values]
    /\ value_ = [g \in Slots |-> IF g \in Values THEN g ELSE NoValue]
    /\ valid_ = [g \in Slots |-> g \in Values]
    /\ deleter_ = [g \in Slots |-> IF g \in Values THEN DeleterFor(g) ELSE nullptr]
    /\ log = [v \in Payloads |-> <<>>]
    /\ handedBack = {}
    /\ nextValue = Cardinality(Slots \cap Values) + 1
    /\ aborted = FALSE
    /\ op = [name |-> "construct", self |-> Cardinality(Slots \cap Values),
             other |-> NoGuard, ret |-> "void", fired |-> 0, after |-> "none"]

NextThreads ==
    \/ \E t \in Threads, n \in {"reset", "destroy", "move_assign"},
          h \in Slots \cup {NoGuard} : Begin(t, n, h)
    \/ \E t \in Threads : release_check(t)
    \/ \E t \in Threads : release_call(t)
    \/ \E t \in Threads : release_clear(t)
    \/ \E t \in Threads : absorb(t)
    \/ \E t \in Threads : end_of_lifetime(t)

SpecThreads == InitThreads /\ [][NextThreads]_vars

TypeOK ==
    /\ alive \in [Slots -> BOOLEAN]
    /\ value_ \in [Slots -> Payloads]
    /\ log \in [Payloads -> Seq(Deleters \cup Adapters)]
    /\ valid_ \in [Slots -> BOOLEAN]
    /\ deleter_ \in [Slots -> Deleters \cup Adapters \cup {nullptr}]
    /\ handedBack \subseteq Values
    /\ nextValue \in 1..(MaxValue + 1)
    /\ aborted \in BOOLEAN
    /\ thread \in [Threads -> [pc : {"idle", "check", "call", "clear", "absorb", "end",
                                      "done", "undefined"},
                                name : {"none", "reset", "destroy", "move_assign"},
                                other : Slots \cup {NoGuard},
                                passed : BOOLEAN]]
\* ------------------------------------------------------------ vocabulary
\* number of deleter invocations on value v recorded in a release log
Releases(lg, v) == Len(lg[v])

\* this step takes the value that guard g owns away from g without
\* releasing it: another guard or the caller owns it now
Transfers(g) ==
    /\ alive[g]
    /\ valid_[g]
    /\ ~(alive'[g] /\ valid_'[g] /\ value_'[g] = value_[g])
    /\ Releases(log', value_[g]) = Releases(log, value_[g])

\* ------------------------------------------------------------------- C1
\* C1: over any sequence of operations on guards constructed with distinct
\* resource values, the release log holds at most one invocation of a
\* deleter for each resource value.
C1_NoDoubleRelease == \A v \in Values : Releases(log, v) <= 1

\* a value was released, its guard lives on, and a further reset of that
\* guard has just run
C1_Witness ==
    /\ op.name = "reset"
    /\ op.after = "reset"
    /\ op.fired = 0
    /\ \E v \in Values : Releases(log, v) = 1

\* ------------------------------------------------------------------- C2
\* C2: whenever no guard is alive, every value given to a successfully
\* constructed guard and never returned by release_ownership() has exactly
\* one deleter invocation in the release log.
C2_NoLeak ==
    (Live = {}) => \A v \in Constructed \ handedBack : Releases(log, v) = 1

\* every guard is gone; two values were given to guards, none was handed
\* back and both have been released
C2_Witness ==
    /\ Live = {}
    /\ nextValue > 2
    /\ handedBack = {}
    /\ Invocations(log) = 2
    /\ op.name = "destroy"

\* ------------------------------------------------------------------- C3
\* no two live guards are valid for the same value
ExclusiveOwner ==
    \A g, h \in Live : (g # h /\ valid_[g] /\ valid_[h]) => value_[g] # value_[h]

\* C3 as stated: at most one live guard is valid for a value, and only
\* move-construction, move-assignment and release_ownership() change the
\* party that owns an unreleased value.
C3_Original ==
    /\ []ExclusiveOwner
    /\ [][\A g \in Slots : Transfers(g) =>
            op'.name \in {"move_construct", "move_assign", "release_ownership"}]_vars

\* C3 amended: at most one live guard is valid for a value, and only
\* move-construction, move-assignment, swap and release_ownership() change
\* the party that owns an unreleased value.
C3_ExclusiveOwnership ==
    /\ []ExclusiveOwner
    /\ [][\A g \in Slots : Transfers(g) =>
            op'.name \in {"move_construct", "move_assign", "swap",
                          "release_ownership"}]_vars

\* a swap has just handed a value from one guard to the other
C3_Witness ==
    /\ op.name = "swap"
    /\ op.self # op.other
    /\ valid_[op.self] # valid_[op.other]

\* ------------------------------------------------------------------- C4
\* C4: destroying a valid guard adds exactly one log entry, the guard's
\* deleter applied to the guard's value; destroying an invalid guard, in
\* particular one that reset() was called on, leaves the log unchanged.
C4_DestroyReleasesOnce ==
    [][op'.name = "destroy" =>
         /\ valid_[op'.self] => log' = Invoke(log, op'.self)
         /\ ~valid_[op'.self] => log' = log
         /\ op'.after = "reset" => log' = log]_vars

\* a guard was reset (one release) and then destroyed without a second one
C4_Witness ==
    /\ op.name = "destroy"
    /\ op.after = "reset"
    /\ op.fired = 0
    /\ Releases(log, 1) = 1
    /\ nextValue = 2
\* ------------------------------------------------------------------- C5
\* C5 as stated: move-constructing G2 from any guard G1 leaves G1 invalid
\* and G2 valid holding G1's former value, and destroying G1 right after
\* invokes no deleter.
C5_Original ==
    [][/\ op'.name = "move_construct" =>
            /\ ~valid_'[op'.other]
            /\ valid_'[op'.self]
            /\ value_'[op'.self] = value_[op'.other]
       /\ (op'.name = "destroy" /\ op'.after = "move_construct_other") =>
            log' = log]_vars

\* C5 amended: move-constructing G2 from a valid guard G1 leaves G1 invalid
\* and G2 valid holding G1's former value (from an invalid G1, G2 is invalid
\* and holds G1's value); it invokes no deleter, and destroying G1 right
\* after invokes none either.
C5_MoveConstruct ==
    [][/\ op'.name = "move_construct" =>
            /\ ~valid_'[op'.other]
            /\ valid_'[op'.self] = valid_[op'.other]
            /\ value_'[op'.self] = value_[op'.other]
            /\ log' = log
       /\ (op'.name = "destroy" /\ op'.after = "move_construct_other") =>
            log' = log]_vars

\* A was moved into B and then destroyed: B is still valid, nothing released
C5_Witness ==
    /\ op.name = "destroy"
    /\ op.after = "move_construct_other"
    /\ Invocations(log) = 0
    /\ \E h \in Live : valid_[h] /\ value_[h] = 1

\* ------------------------------------------------------------------- C6
\* C6: move-assigning into a valid guard from another guard adds exactly
\* one log entry, the destination's original deleter applied to the
\* destination's original value, and the destination ends with the
\* source's value, validity and deleter.
C6_MoveAssignReleasesFirst ==
    [][(op'.name = "move_assign" /\ op'.self # op'.other /\ valid_[op'.self]) =>
          /\ log' = Invoke(log, op'.self)
          /\ value_'[op'.self] = value_[op'.other]
          /\ valid_'[op'.self] = valid_[op'.other]
          /\ deleter_'[op'.self] = deleter_[op'.other]]_vars

\* a valid guard absorbed another valid guard: its old value is in the log,
\* the value it holds now is not
C6_Witness ==
    /\ op.name = "move_assign"
    /\ op.self # op.other
    /\ op.fired = 1
    /\ valid_[op.self]
    /\ Invocations(log) = 1
    /\ Releases(log, value_[op.self]) = 0

\* ------------------------------------------------------------------- C7
\* C7: self-move-assignment changes no guard's value, validity or deleter
\* and leaves the log unchanged, for a valid and for an invalid guard;
\* destroying a valid guard right after releases its value exactly once.
C7_SelfMoveAssign ==
    [][/\ (op'.name = "move_assign" /\ op'.self = op'.other) =>
            UNCHANGED <<alive, value_, valid_, deleter_, log, handedBack>>
       /\ (op'.name = "destroy" /\ op'.after = "self_move_assign"
              /\ valid_[op'.self]) =>
            log' = Invoke(log, op'.self)]_vars

\* a valid guard was self-move-assigned and then destroyed with one release
C7_Witness ==
    /\ op.name = "destroy"
    /\ op.after = "self_move_assign"
    /\ op.fired = 1
    /\ log[1] = <<DeleterFor(1)>>

\* ------------------------------------------------------------------- C8
\* C8: release_ownership() returns the held value, leaves the log unchanged
\* and the guard invalid; right after it operator bool returns false,
\* reset() changes nothing and destruction leaves the log unchanged.
C8_ReleaseOwnership ==
    [][/\ op'.name = "release_ownership" =>
            /\ op'.ret = value_[op'.self]
            /\ log' = log
            /\ ~valid_'[op'.self]
       /\ (op'.name = "operator_bool" /\ op'.after = "release_ownership") =>
            op'.ret = FALSE
       /\ (op'.name = "reset" /\ op'.after = "release_ownership") =>
            UNCHANGED <<alive, value_, valid_, deleter_, log, handedBack>>
       /\ (op'.name = "destroy" /\ op'.after = "release_ownership") =>
            log' = log]_vars

\* a valid guard gave its value back and was then destroyed: the value is
\* with the caller and was never released
C8_Witness ==
    /\ op.name = "destroy"
    /\ op.after = "release_ownership"
    /\ handedBack = {1}
    /\ nextValue = 2
    /\ Invocations(log) = 0

\* ------------------------------------------------------------------- C9
\* C9: swap(a, b) leaves a with b's former value, validity and deleter and b
\* with a's, and the log unchanged; destroying either guard right after
\* appends one entry for the value it holds after the swap if it is valid
\* and none otherwise.
C9_Swap ==
    [][/\ op'.name = "swap" =>
            /\ value_'[op'.self] = value_[op'.other]
            /\ valid_'[op'.self] = valid_[op'.other]
            /\ deleter_'[op'.self] = deleter_[op'.other]
            /\ value_'[op'.other] = value_[op'.self]
            /\ valid_'[op'.other] = valid_[op'.self]
            /\ deleter_'[op'.other] = deleter_[op'.self]
            /\ log' = log
       /\ (op'.name = "destroy" /\ op'.after \in {"swap", "swap_other"}) =>
            IF valid_[op'.self]
            THEN log' = Invoke(log, op'.self)
            ELSE log' = log]_vars

\* guard 1 (value 1, invalid) was swapped with guard 2 (value 2, valid) and
\* then destroyed: value 2 was released by its own deleter, value 1 never
C9_Witness ==
    /\ op.name = "destroy"
    /\ op.self = 1
    /\ op.after \in {"swap", "swap_other"}
    /\ log[2] = <<DeleterFor(2)>>
    /\ Invocations(log) = 1
    /\ handedBack = {1}
    /\ alive[2] /\ ~valid_[2]

\* ------------------------------------------------------------------ C10
\* C10: reset() on a valid guard appends one log entry for the held value
\* and makes the guard invalid; on an invalid guard it changes nothing; a
\* reset() right after a reset() leaves the log unchanged.
C10_ResetIdempotent ==
    [][op'.name = "reset" =>
         /\ valid_[op'.self] =>
              /\ log' = Invoke(log, op'.self)
              /\ ~valid_'[op'.self]
         /\ ~valid_[op'.self] =>
              UNCHANGED <<alive, value_, valid_, deleter_, log, handedBack>>
         /\ op'.after = "reset" => log' = log
         /\ UNCHANGED <<alive, value_, deleter_>>]_vars

\* handle 1 was reset twice in succession: the log has exactly one entry
C10_Witness ==
    /\ op.name = "reset"
    /\ op.after = "reset"
    /\ nextValue = 2
    /\ log[1] = <<DeleterFor(1)>>
\* ------------------------------------------------------------------ C11
\* C11: a construction with a null deleter ends in std::terminate(): no
\* guard comes into existence, no guard changes, no deleter is invoked, the
\* constructor does not return, and from the aborted state no operation
\* runs any more.
C11_NullDeleterTerminates ==
    [][/\ op'.name = "construct_null" =>
            /\ aborted'
            /\ op'.ret = "terminate"
            /\ op'.fired = 0
            /\ UNCHANGED <<alive, value_, valid_, deleter_, log, handedBack>>
       /\ ~aborted]_vars

\* the process terminated in a constructor while another guard was still
\* valid: that guard's value is never released
C11_Witness ==
    /\ aborted
    /\ op.name = "construct_null"
    /\ \E g \in Live : valid_[g] /\ Releases(log, value_[g]) = 0
\* ------------------------------------------------------------------ C12
\* a reset, destruction or move-assignment (onto another guard) has just
\* run on a guard that was valid
ReleasedNow ==
    /\ op'.name \in {"reset", "destroy", "move_assign"}
    /\ op'.self # op'.other
    /\ valid_[op'.self]

\* C12: when a factory-built guard releases (reset, move-assignment over it
\* or destruction), the callable is applied once to the held value; if the
\* callable throws, the operation does not return to its caller but ends in
\* termination, and after termination no operation runs and no deleter is
\* invoked.
C12_FactoryReleaseTerminates ==
    [][/\ ReleasedNow =>
            /\ log' = Invoke(log, op'.self)
            /\ aborted' = (deleter_[op'.self] = ThrowingFn)
            /\ op'.ret = IF deleter_[op'.self] = ThrowingFn
                         THEN "terminate" ELSE "void"
            /\ aborted' => UNCHANGED <<alive, value_, valid_, deleter_, handedBack>>
       /\ ~aborted]_vars

\* a guard built from a throwing callable was move-assigned over: the
\* callable was applied to its value and the process terminated with the
\* source guard still valid
C12_Witness ==
    /\ aborted
    /\ op.name = "move_assign"
    /\ op.ret = "terminate"
    /\ deleter_[op.self] = ThrowingFn
    /\ log[value_[op.self]] = <<ThrowingFn>>
    /\ valid_[op.other]
\* ------------------------------------------------------------------ C13
\* C13: get(), operator-> and operator bool are pure observers: on a valid
\* or an invalid guard they change no guard's value, validity or deleter and
\* invoke no deleter; operator bool returns exactly valid_, and get() (like
\* operator->) gives the stored payload even when the guard is invalid.
C13_PureObservers ==
    [][op'.name \in {"get", "operator_arrow", "operator_bool"} =>
            /\ UNCHANGED <<alive, value_, valid_, deleter_, log, handedBack, aborted>>
            /\ op'.fired = 0
            /\ op'.name = "operator_bool" => op'.ret = valid_[op'.self]
            /\ op'.name \in {"get", "operator_arrow"} => op'.ret = value_[op'.self]]_vars

\* get() ran on a guard whose value was already released and returned that
\* value
C13_Witness ==
    /\ op.name = "get"
    /\ ~valid_[op.self]
    /\ op.ret \in Values
    /\ op.ret = value_[op.self]
    /\ Releases(log, op.ret) = 1
\* ------------------------------------------------------------------ C14
\* this step clears the valid flag of guard g, which stays alive
Invalidates(g) == alive[g] /\ valid_[g] /\ alive'[g] /\ ~valid_'[g]

\* this step invokes a deleter on the value guard g holds
ReleasesValueOf(g) == Releases(log', value_[g]) > Releases(log, value_[g])

\* this step moves from guard g (move construction or move assignment)
MovesFrom(g) ==
    /\ op'.name \in {"move_construct", "move_assign"}
    /\ op'.other = g
    /\ op'.self # g

\* C14 as stated: the valid flag is true exactly while the value has not
\* been released by the deleter and the guard has not been moved from, so a
\* valid guard holds an unreleased value and its flag is cleared only by a
\* release or by a move from it (a swap, which exchanges the whole state of
\* two guards, is let through).
C14_Original ==
    [][/\ \A g \in Live : valid_[g] => Releases(log, value_[g]) = 0
       /\ \A g \in Slots : Invalidates(g) =>
            \/ ReleasesValueOf(g)
            \/ MovesFrom(g)
            \/ op'.name = "swap"]_vars

\* C14: a valid guard holds a value no deleter has been invoked on, and the
\* valid flag of a guard is cleared only by a release of its value by the
\* deleter, by a move from the guard, by release_ownership() on it, or by a
\* swap with an invalid guard.
C14_ValidFlag ==
    [][/\ \A g \in Live : valid_[g] => Releases(log, value_[g]) = 0
       /\ \A g \in Slots : (alive'[g] /\ valid_'[g]) => Releases(log', value_'[g]) = 0
       /\ \A g \in Slots : Invalidates(g) =>
            \/ ReleasesValueOf(g)
            \/ MovesFrom(g)
            \/ op'.name = "release_ownership" /\ op'.self = g
            \/ /\ op'.name = "swap"
               /\ \/ op'.self = g /\ ~valid_[op'.other]
                  \/ op'.other = g /\ ~valid_[op'.self]]_vars

\* release_ownership() has cleared the flag of a guard whose value no
\* deleter was invoked on and that no move has taken from, next to a guard
\* that is still valid
C14_Witness ==
    /\ op.name = "release_ownership"
    /\ op.ret \in Values
    /\ ~valid_[op.self]
    /\ value_[op.self] = op.ret
    /\ Releases(log, op.ret) = 0
    /\ \A h \in Live : value_[h] = op.ret => h = op.self
    /\ \E h \in Live : valid_[h]
\* ------------------------------------------------------------------ C15
\* this step sets the valid flag of guard g, which was alive and invalid
Rearms(g) == alive[g] /\ ~valid_[g] /\ alive'[g] /\ valid_'[g]

\* C15 as stated: an invalid guard becomes valid again only as the
\* destination of a move assignment.
C15_Original ==
    [][\A g \in Slots : Rearms(g) =>
            op'.name = "move_assign" /\ op'.self = g]_vars

\* C15: an invalid guard stays invalid under every operation except two: as
\* the destination of a move assignment from a valid guard, and as either
\* side of a swap with a valid guard.
C15_Sticky ==
    [][\A g \in Slots : Rearms(g) =>
            \/ /\ op'.name = "move_assign"
               /\ op'.self = g
               /\ op'.other # g
               /\ valid_[op'.other]
            \/ /\ op'.name = "swap"
               /\ \/ op'.self = g /\ valid_[op'.other]
                  \/ op'.other = g /\ valid_[op'.self]]_vars

\* a guard whose value had been released was move-assigned into from a
\* valid guard and is valid again, with no deleter invoked by the assignment
C15_Witness ==
    /\ op.name = "move_assign"
    /\ op.self # op.other
    /\ op.fired = 0
    /\ valid_[op.self]
    /\ ~valid_[op.other]
    /\ Invocations(log) = 1
    /\ Releases(log, value_[op.self]) = 0
\* ------------------------------------------------------------------ C16
\* C16: in every reachable state every live guard, valid or not, holds a
\* non-null deleter.
C16_DeleterNeverNull == \A g \in Live : deleter_[g] # nullptr

\* a moved-from guard and the guard move-constructed from it both hold the
\* deleter
C16_Witness ==
    /\ op.name = "move_construct"
    /\ \E g, h \in Live :
            /\ g # h
            /\ valid_[g]
            /\ ~valid_[h]
            /\ value_[g] = value_[h]
            /\ deleter_[g] = deleter_[h]
            /\ deleter_[h] # nullptr
\* ------------------------------------------------------------------ C17
\* C17: every operation invokes a deleter at most once; only reset(),
\* destruction and move assignment invoke one, and then on the value the
\* guard they act on held before; construction, move construction,
\* release_ownership(), swap, get(), operator-> and operator bool invoke
\* none.
C17_AtMostOneInvocation ==
    [][/\ Invocations(log') - Invocations(log) \in {0, 1}
       /\ op'.fired = Invocations(log') - Invocations(log)
       /\ log' # log =>
            /\ op'.name \in {"reset", "destroy", "move_assign"}
            /\ log' = Invoke(log, op'.self)]_vars

\* a move assignment released the one value its destination held while an
\* earlier release is already in the log
C17_Witness ==
    /\ op.name = "move_assign"
    /\ op.fired = 1
    /\ Invocations(log) = 2
    /\ ~valid_[op.self]
    /\ ~valid_[op.other]
\* ------------------------------------------------------------------ C18
\* C18: release() reads valid_ and clears it in separate steps with no
\* lock: the step in which a thread passes the test leaves the flag set, so
\* another thread can pass it too, and a thread that has passed the test
\* invokes the deleter on the held value whatever the flag has become and
\* clears the flag only afterwards.
C18_CheckThenAct ==
    [][\A t \in Threads :
            /\ (thread[t].pc = "check" /\ thread'[t].pc = "call") =>
                    /\ valid_[Shared]
                    /\ valid_'[Shared]
                    /\ log' = log
            /\ (thread[t].pc = "call" /\ thread'[t].pc = "clear") =>
                    /\ thread[t].passed
                    /\ log' = Invoke(log, Shared)
                    /\ valid_' = valid_
            /\ (thread[t].pc = "clear" /\ thread'[t].pc # "clear"
                    /\ thread'[t].pc # "undefined") =>
                    /\ ~valid_'[Shared]
                    /\ log' = log]_vars

\* two threads called reset() on the valid guard, both passed the test, and
\* the deleter has been invoked twice on the guard's value
C18_Witness ==
    /\ \A t \in {1, 2} : thread[t].name = "reset" /\ thread[t].passed
    /\ value_[Shared] = 1
    /\ log[1] = <<DeleterFor(1), DeleterFor(1)>>
\* ------------------------------------------------------------------ C19
\* C19: after a = std::move(b) with a and b distinct, a is valid exactly if
\* b was valid before, and b is invalid; when b was invalid and a valid, the
\* deleter of a is invoked once on a's value and both guards end invalid.
C19_MoveAssignValidity ==
    [][(op'.name = "move_assign" /\ op'.self # op'.other) =>
            /\ valid_'[op'.self] = valid_[op'.other]
            /\ ~valid_'[op'.other]
            /\ (valid_[op'.self] /\ ~valid_[op'.other]) =>
                    /\ log' = Invoke(log, op'.self)
                    /\ ~valid_'[op'.self]
                    /\ ~valid_'[op'.other]]_vars

\* a valid guard was move-assigned from the moved-from guard it had been
\* constructed from: its value was released and both guards are invalid
C19_Witness ==
    /\ op.name = "move_assign"
    /\ op.self # op.other
    /\ op.fired = 1
    /\ ~valid_[op.self]
    /\ ~valid_[op.other]
    /\ value_[op.self] = value_[op.other]
    /\ log[value_[op.self]] = <<deleter_[op.self]>>
    /\ Invocations(log) = 1
\* ------------------------------------------------------------------ C20
\* C20: the deleter travels with its value: every live guard holds the
\* deleter its value was constructed with, and every invocation in the
\* release log applied to a value the deleter that value was paired with at
\* construction.
C20_DeleterTravelsWithValue ==
    /\ \A g \in Live : deleter_[g] = DeleterFor(value_[g])
    /\ \A v \in Values : \A i \in 1..Len(log[v]) : log[v][i] = DeleterFor(v)
    /\ log[NoValue] = <<>>

\* two values with different deleters were both released, the second by
\* destroying a guard right after it had taken the value over in a swap
C20_Witness ==
    /\ op.name = "destroy"
    /\ op.after \in {"swap", "swap_other"}
    /\ op.fired = 1
    /\ DeleterFor(1) # DeleterFor(2)
    /\ log[1] = <<DeleterFor(1)>>
    /\ log[2] = <<DeleterFor(2)>>
====
